---- MODULE Spec2Model ----
(***************************************************************************)
(* rach3datautils.utils.path.PathUtils: classification of dataset files    *)
(* by name, and extraction of the metadata their names encode.             *)
(*                                                                         *)
(* A path is the sequence of its characters, as str(path) gives it; every  *)
(* character is a one-character string.  Path.name, Path.stem,             *)
(* Path.suffix, str.split and the regular expressions of the source are    *)
(* operators over such sequences.  A call is modelled as an action that    *)
(* stores the name of the called method in op and its outcome in result:   *)
(* a returned value, None, or the exception that was raised.               *)
(***************************************************************************)
EXTENDS Integers, Sequences, FiniteSets

VARIABLES path, path2, op, result, result2

vars == <<path, path2, op, result, result2>>

---------------------------------------------------------------------------
(* Bounds *)

\* Largest number of "_"-separated tokens of a generated file stem.
MaxTokens == 2

---------------------------------------------------------------------------
(* Outcomes of a call *)

Ok(v) == [kind |-> "ok", val |-> v]

None == [kind |-> "none"]

Raise(e) == [kind |-> "raise", exc |-> e]

NoCall == [kind |-> "nocall"]

---------------------------------------------------------------------------
(* Characters and strings *)

Digits == {"0", "1", "2", "3", "4", "5", "6", "7", "8", "9"}

\* \d of the re module, on the characters the model generates.
IsDigit(c) == c \in Digits

\* int() of one decimal digit.
DigitVal(c) ==
  CASE c = "0" -> 0 [] c = "1" -> 1 [] c = "2" -> 2 [] c = "3" -> 3
    [] c = "4" -> 4 [] c = "5" -> 5 [] c = "6" -> 6 [] c = "7" -> 7
    [] c = "8" -> 8 [] c = "9" -> 9

\* int() of a string of decimal digits.
RECURSIVE ToInt(_)
ToInt(s) ==
  IF s = <<>> THEN 0
  ELSE 10 * ToInt(SubSeq(s, 1, Len(s) - 1)) + DigitVal(s[Len(s)])

\* str.rfind(c) + 1: the last position of c in s, 0 when absent.
RFind(s, c) ==
  LET hits == {i \in 1..Len(s) : s[i] = c}
  IN  IF hits = {} THEN 0 ELSE CHOOSE i \in hits : \A j \in hits : j <= i

\* The first position of c in s, 0 when absent.
Find(s, c) ==
  LET hits == {i \in 1..Len(s) : s[i] = c}
  IN  IF hits = {} THEN 0 ELSE CHOOSE i \in hits : \A j \in hits : i <= j

\* s[from:] of Python, from being a 1-based position.
Tail_(s, from) == SubSeq(s, from, Len(s))

\* str.split(sep): the sep-delimited substrings in order, empty ones kept.
RECURSIVE StrSplit(_, _)
StrSplit(s, sep) ==
  LET i == Find(s, sep)
  IN  IF i = 0 THEN <<s>>
      ELSE <<SubSeq(s, 1, i - 1)>> \o StrSplit(Tail_(s, i + 1), sep)

\* pathlib: Path.name, the final component of the path.
Name(p) == Tail_(p, RFind(p, "/") + 1)

\* pathlib: Path.suffix; a leading or a trailing dot starts no suffix.
Suffix(p) ==
  LET name == Name(p)
      i    == RFind(name, ".")
  IN  IF 1 < i /\ i < Len(name) THEN Tail_(name, i) ELSE <<>>

\* pathlib: Path.stem, the name without its suffix.
Stem(p) ==
  LET name == Name(p)
      i    == RFind(name, ".")
  IN  IF 1 < i /\ i < Len(name) THEN SubSeq(name, 1, i - 1) ELSE name

\* file.stem.split("_")
Tokens(p) == StrSplit(Stem(p), "_")

\* file.stem.split("_")[-1]
LastToken(p) == Tokens(p)[Len(Tokens(p))]

\* file.stem.split("_")[0]
FirstToken(p) == Tokens(p)[1]

\* "$" of the re module: the end of the string, or just before a line feed
\* that ends the string.  AtEnd(s, i) says that position i (1-based, the
\* position of the next unread character) is such a place.
AtEnd(s, i) == i = Len(s) + 1 \/ (i = Len(s) /\ s[i] = "\n")

---------------------------------------------------------------------------
(* String literals of the source *)

s_mid == <<".", "m", "i", "d">>

s_flac == <<".", "f", "l", "a", "c">>

s_mp4 == <<".", "m", "p", "4">>

s_aac == <<".", "a", "a", "c">>

s_split == <<"s", "p", "l", "i", "t">>

s_full == <<"f", "u", "l", "l">>

s_trimmed == <<"t", "r", "i", "m", "m", "e", "d">>

s_warmup == <<"w", "a", "r", "m", "u", "p">>

s_a == <<"a">>

---------------------------------------------------------------------------
(* Regular expressions of the source *)

\* MatchSplit with the pattern ^split\d{1,3}$: a third digit is accepted.
MatchSplit_3digits(tok) ==
  /\ Len(tok) >= 6
  /\ SubSeq(tok, 1, 5) = s_split
  /\ IsDigit(tok[6])
  /\ \/ AtEnd(tok, 7)
     \/ Len(tok) >= 7 /\ IsDigit(tok[7]) /\ AtEnd(tok, 8)
     \/ Len(tok) >= 8 /\ IsDigit(tok[7]) /\ IsDigit(tok[8]) /\ AtEnd(tok, 9)

\* re.search(r"^split\d{1,2}$", tok) finds a match.
MatchSplit(tok) ==
  /\ Len(tok) >= 6
  /\ SubSeq(tok, 1, 5) = s_split
  /\ IsDigit(tok[6])
  /\ \/ AtEnd(tok, 7)
     \/ Len(tok) >= 7 /\ IsDigit(tok[7]) /\ AtEnd(tok, 8)

\* re.search("(^a|^v)\\d\\d$", tok) finds a match.
MatchSessionNo(tok) ==
  /\ Len(tok) >= 3
  /\ tok[1] \in {"a", "v"}
  /\ IsDigit(tok[2])
  /\ IsDigit(tok[3])
  /\ AtEnd(tok, 4)

\* ([0-9]{4})-([0-9]{2})-([0-9]{2}) matches s at position i.
DateAt(s, i) ==
  /\ i + 9 <= Len(s)
  /\ \A k \in {0, 1, 2, 3, 5, 6, 8, 9} : IsDigit(s[i + k])
  /\ s[i + 4] = "-"
  /\ s[i + 7] = "-"

\* c followed by n digits matches s at position i (a\d{2}, p\d{3}).
LetterDigitsAt(s, i, c, n) ==
  /\ i + n <= Len(s)
  /\ s[i] = c
  /\ \A k \in 1..n : IsDigit(s[i + k])

\* re.search: the leftmost of the positions where the pattern matches, 0
\* when there is none.
Leftmost(hits) ==
  IF hits = {} THEN 0 ELSE CHOOSE i \in hits : \A j \in hits : i <= j

---------------------------------------------------------------------------
(* Predicates *)

\* any([... for i in file.stem.split("_")])
is_split(file) ==
  Ok(\E k \in 1..Len(Tokens(file)) : MatchSplit(Tokens(file)[k]))

\* The index [-1][0] is evaluated first: an empty last token raises
\* whatever the suffix is.
is_valid_video(file) ==
  IF LastToken(file) = <<>> THEN Raise("IndexError")
  ELSE Ok(LastToken(file)[1] = "p" /\ Suffix(file) = s_mp4)

is_valid_audio(file) ==
  IF LastToken(file) = <<>> THEN Raise("IndexError")
  ELSE Ok(LastToken(file)[1] = "p" /\ Suffix(file) = s_aac)

is_full_audio(file) ==
  Ok((\E k \in 1..Len(Tokens(file)) : Tokens(file)[k] = s_full)
     /\ Suffix(file) = s_aac)

is_trimmed(file) ==
  Ok(\E k \in 1..Len(Tokens(file)) : Tokens(file)[k] = s_trimmed)

is_warmup(file) == Ok(FirstToken(file) = s_warmup)

\* is_valid_flac with the operands of "and" in the order of is_valid_video.
is_valid_flac_index_first(file) ==
  IF LastToken(file) = <<>> THEN Raise("IndexError")
  ELSE Ok(Suffix(file) = s_flac /\ LastToken(file)[1] = "a")

\* The suffix is compared first: "and" short-circuits, and the index
\* [-1][0] is evaluated for a ".flac" file only.
is_valid_flac(file) ==
  IF Suffix(file) # s_flac THEN Ok(FALSE)
  ELSE IF LastToken(file) = <<>> THEN Raise("IndexError")
  ELSE Ok(LastToken(file)[1] = "a")

is_valid_midi(file) ==
  IF Suffix(file) # s_mid THEN Ok(FALSE)
  ELSE IF LastToken(file) = <<>> THEN Raise("IndexError")
  ELSE Ok(LastToken(file)[1] = "a")

is_full_video(file) == Ok(LastToken(file) = s_full /\ Suffix(file) = s_mp4)

---------------------------------------------------------------------------
(* Extractors *)

get_session_id(file) == Ok(FirstToken(file))

\* get_session_no returning the matched token with its own prefix.
get_session_no_keep_prefix(file) ==
  LET toks == Tokens(file)
      k == Leftmost({j \in 1..Len(toks) : MatchSessionNo(toks[j])})
  IN  IF k = 0 THEN None
      ELSE Ok(<<toks[k][1]>> \o SubSeq(toks[k], Len(toks[k]) - 1, Len(toks[k])))

\* The first token that matches; the prefix of the result is always "a".
get_session_no(file) ==
  LET toks == Tokens(file)
      k == Leftmost({j \in 1..Len(toks) : MatchSessionNo(toks[j])})
  IN  IF k = 0 THEN None
      ELSE Ok(s_a \o SubSeq(toks[k], Len(toks[k]) - 1, Len(toks[k])))

\* get_date searching str(file), as get_fileno_a does, not file.name.
get_date_whole_path(file) ==
  LET i == Leftmost({j \in 1..Len(file) : DateAt(file, j)})
  IN  IF i = 0 THEN Raise("IdentityError")
      ELSE Ok(SubSeq(file, i, i + 9))

\* date_pat.search(file.name); search.group()
get_date(file) ==
  LET name == Name(file)
      i == Leftmost({j \in 1..Len(name) : DateAt(name, j)})
  IN  IF i = 0 THEN Raise("IdentityError")
      ELSE Ok(SubSeq(name, i, i + 9))

\* re.search("a\\d{2}", str(file)).group(); None.group() raises
\* AttributeError.
get_fileno_a(file) ==
  LET i == Leftmost({j \in 1..Len(file) : LetterDigitsAt(file, j, "a", 2)})
  IN  IF i = 0 THEN Raise("AttributeError")
      ELSE Ok(ToInt(SubSeq(file, i + 1, i + 2)))

\* re.search("p\\d{3}", str(file)).group()
get_fileno_p(file) ==
  LET i == Leftmost({j \in 1..Len(file) : LetterDigitsAt(file, j, "p", 3)})
  IN  IF i = 0 THEN Raise("AttributeError")
      ELSE Ok(ToInt(SubSeq(file, i + 1, i + 3)))

\* get_split_no with the pattern \d: one digit only.
get_split_no_one_digit(file) ==
  LET tok == LastToken(file)
      i == Leftmost({j \in 1..Len(tok) : IsDigit(tok[j])})
  IN  IF i = 0 THEN Raise("AttributeError")
      ELSE Ok(ToInt(SubSeq(tok, i, i)))

\* re.search("\\d{1,2}", last token).group(): the leftmost digit and the
\* digit that follows it, if any.
get_split_no(file) ==
  LET tok == LastToken(file)
      i == Leftmost({j \in 1..Len(tok) : IsDigit(tok[j])})
  IN  IF i = 0 THEN Raise("AttributeError")
      ELSE IF i < Len(tok) /\ IsDigit(tok[i + 1])
           THEN Ok(ToInt(SubSeq(tok, i, i + 1)))
           ELSE Ok(ToInt(SubSeq(tok, i, i)))

---------------------------------------------------------------------------
(* Classifier *)

\* if/elif chains of get_type: the predicates are called in order, the
\* first that returns True decides, one that raises ends the call with its
\* exception, and falling off the end returns None.
get_type(file) ==
  IF Suffix(file) = s_mid THEN
    IF is_valid_midi(file).kind = "raise" THEN is_valid_midi(file)
    ELSE IF is_valid_midi(file).val THEN Ok("full_midi")
    ELSE IF is_split(file).val THEN Ok("split_midi")
    ELSE None
  ELSE IF Suffix(file) = s_flac THEN
    IF is_valid_flac(file).kind = "raise" THEN is_valid_flac(file)
    ELSE IF is_valid_flac(file).val THEN Ok("full_flac")
    ELSE IF is_split(file).val THEN Ok("split_flac")
    ELSE None
  ELSE IF Suffix(file) = s_mp4 THEN
    IF is_trimmed(file).val THEN Ok("trimmed_video")
    ELSE IF is_full_video(file).val THEN Ok("full_video")
    ELSE IF is_valid_video(file).kind = "raise" THEN is_valid_video(file)
    ELSE IF is_valid_video(file).val THEN Ok("video")
    ELSE IF is_split(file).val THEN Ok("split_video")
    ELSE None
  ELSE IF Suffix(file) = s_aac THEN
    IF is_full_audio(file).val THEN Ok("full_audio")
    ELSE IF is_valid_audio(file).kind = "raise" THEN is_valid_audio(file)
    ELSE IF is_valid_audio(file).val THEN Ok("audio")
    ELSE None
  ELSE None

---------------------------------------------------------------------------
(* Composite split identifier *)

IsLeap(y) == (y % 4 = 0 /\ y % 100 # 0) \/ y % 400 = 0

DaysInMonth(y, m) ==
  IF m = 2 THEN (IF IsLeap(y) THEN 29 ELSE 28)
  ELSE IF m \in {4, 6, 9, 11} THEN 30 ELSE 31

\* datetime.strptime(date, "%Y-%m-%d") of a string of shape dddd-dd-dd:
\* the date <<year, month, day>>, or ValueError when it is no calendar date.
strptime(date) ==
  LET y == ToInt(SubSeq(date, 1, 4))
      m == ToInt(SubSeq(date, 6, 7))
      d == ToInt(SubSeq(date, 9, 10))
  IN  IF y >= 1 /\ m \in 1..12 /\ d >= 1 /\ d <= DaysInMonth(y, m)
      THEN Ok(<<y, m, d>>)
      ELSE Raise("ValueError")

\* Days from 1970-01-01 to the proleptic Gregorian date ymd.
DaysFromEpoch(ymd) ==
  LET y   == IF ymd[2] <= 2 THEN ymd[1] - 1 ELSE ymd[1]
      mp  == IF ymd[2] > 2 THEN ymd[2] - 3 ELSE ymd[2] + 9
      era == y \div 400
      yoe == y - era * 400
      doy == (153 * mp + 2) \div 5 + ymd[3] - 1
      doe == yoe * 365 + yoe \div 4 - yoe \div 100 + doy
  IN  era * 146097 + doe - 719468

\* int(time.mktime(date_parsed.timetuple())): the epoch seconds of midnight
\* of the date, the local time zone being UTC.
mktime(ymd) == DaysFromEpoch(ymd) * 86400

\* get_split_num_id with the split number padded to one digit.
get_split_num_id_pad1(file) ==
  IF get_date(file).kind = "raise" THEN get_date(file)
  ELSE IF strptime(get_date(file).val).kind = "raise"
       THEN strptime(get_date(file).val)
  ELSE IF get_split_no(file).kind = "raise" THEN get_split_no(file)
  ELSE IF get_split_no(file).val >= 100 THEN Raise("AttributeError")
  ELSE Ok(mktime(strptime(get_date(file).val).val) * 10
          + get_split_no(file).val)

\* get_date, strptime and get_split_no in this order, each ending the call
\* when it raises; then the check of the two-digit budget.
get_split_num_id(file) ==
  IF get_date(file).kind = "raise" THEN get_date(file)
  ELSE IF strptime(get_date(file).val).kind = "raise"
       THEN strptime(get_date(file).val)
  ELSE IF get_split_no(file).kind = "raise" THEN get_split_no(file)
  ELSE IF get_split_no(file).val >= 100 THEN Raise("AttributeError")
  ELSE Ok(mktime(strptime(get_date(file).val).val) * 100
          + get_split_no(file).val)

---------------------------------------------------------------------------
(* Inputs: the paths the methods are called with *)

t_split7 == <<"s", "p", "l", "i", "t", "7">>

t_split23 == <<"s", "p", "l", "i", "t", "2", "3">>

t_split100 == <<"s", "p", "l", "i", "t", "1", "0", "0">>

t_split10 == <<"s", "p", "l", "i", "t", "1", "0">>

t_split7_lf == <<"s", "p", "l", "i", "t", "7", "\n">>

t_a01 == <<"a", "0", "1">>

t_v12 == <<"v", "1", "2">>

t_p001 == <<"p", "0", "0", "1">>

t_date1 == <<"1", "9", "7", "0", "-", "0", "1", "-", "0", "2">>

t_date2 == <<"1", "9", "7", "0", "-", "0", "1", "-", "0", "3">>

t_date0 == <<"1", "9", "6", "9", "-", "1", "2", "-", "3", "1">>

t_nodate == <<"1", "9", "7", "0", "-", "0", "2", "-", "3", "0">>

s_txt == <<".", "t", "x", "t">>

d_sub == <<"1", "9", "7", "0", "-", "0", "1", "-", "0", "9", "p", "1", "2", "3", "a", "4", "5", "/">>

\* Tokens of the naming convention, and tokens that break it: the empty
\* token, a three-digit split, a token that ends in a line feed, a date
\* that is no calendar date.
TokenSet ==
  {<<>>, s_warmup, s_trimmed, s_full, t_split7, t_split23, t_split100,
   t_split7_lf, t_a01, t_v12, t_p001, t_date1, t_date2, t_nodate}

ExtSet == {s_mid, s_flac, s_mp4, s_aac, s_txt}

\* The parent directory: none, or one whose name holds a date and what
\* looks like file numbers.
DirSet == {<<>>, d_sub}

\* "_".join(toks)
RECURSIVE Join(_)
Join(toks) ==
  IF Len(toks) = 1 THEN toks[1]
  ELSE toks[1] \o <<"_">> \o Join(Tail(toks))

TokenSeqs == UNION {[1..n -> TokenSet] : n \in 1..MaxTokens}

Files == {d \o Join(ts) \o e : d \in DirSet, ts \in TokenSeqs, e \in ExtSet}

\* Files with a date or none and a split number or none, in pairs.
PairFiles ==
  {Join(<<a, b>>) \o s_mid :
     a \in {t_date0, t_date1, t_date2, t_nodate, s_warmup},
     b \in {t_split7, t_split10, t_split23, t_split100, t_a01, t_date1,
            s_full}}

---------------------------------------------------------------------------
(* Calls *)

Methods ==
  {"get_type", "is_split", "is_valid_video", "is_valid_audio",
   "get_session_id", "get_session_no", "get_date", "is_full_audio",
   "get_fileno_a", "get_fileno_p", "is_trimmed", "is_warmup",
   "is_valid_flac", "is_valid_midi", "is_full_video", "get_split_no",
   "get_split_num_id"}

\* The outcome of method m on file.
Apply(m, file) ==
  CASE m = "get_type" -> get_type(file)
    [] m = "is_split" -> is_split(file)
    [] m = "is_valid_video" -> is_valid_video(file)
    [] m = "is_valid_audio" -> is_valid_audio(file)
    [] m = "get_session_id" -> get_session_id(file)
    [] m = "get_session_no" -> get_session_no(file)
    [] m = "get_date" -> get_date(file)
    [] m = "is_full_audio" -> is_full_audio(file)
    [] m = "get_fileno_a" -> get_fileno_a(file)
    [] m = "get_fileno_p" -> get_fileno_p(file)
    [] m = "is_trimmed" -> is_trimmed(file)
    [] m = "is_warmup" -> is_warmup(file)
    [] m = "is_valid_flac" -> is_valid_flac(file)
    [] m = "is_valid_midi" -> is_valid_midi(file)
    [] m = "is_full_video" -> is_full_video(file)
    [] m = "get_split_no" -> get_split_no(file)
    [] m = "get_split_num_id" -> get_split_num_id(file)

Init ==
  /\ path \in Files
  /\ path2 = <<>>
  /\ op = "none"
  /\ result = NoCall
  /\ result2 = NoCall

\* One action for each method of PathUtils that works on a file name: a
\* caller calls the method on path and gets its outcome.
call_get_type ==
  /\ op = "none"
  /\ op' = "get_type"
  /\ result' = get_type(path)
  /\ UNCHANGED <<path, path2, result2>>

call_is_split ==
  /\ op = "none"
  /\ op' = "is_split"
  /\ result' = is_split(path)
  /\ UNCHANGED <<path, path2, result2>>

call_is_valid_video ==
  /\ op = "none"
  /\ op' = "is_valid_video"
  /\ result' = is_valid_video(path)
  /\ UNCHANGED <<path, path2, result2>>

call_is_valid_audio ==
  /\ op = "none"
  /\ op' = "is_valid_audio"
  /\ result' = is_valid_audio(path)
  /\ UNCHANGED <<path, path2, result2>>

call_get_session_id ==
  /\ op = "none"
  /\ op' = "get_session_id"
  /\ result' = get_session_id(path)
  /\ UNCHANGED <<path, path2, result2>>

call_get_session_no ==
  /\ op = "none"
  /\ op' = "get_session_no"
  /\ result' = get_session_no(path)
  /\ UNCHANGED <<path, path2, result2>>

call_get_date ==
  /\ op = "none"
  /\ op' = "get_date"
  /\ result' = get_date(path)
  /\ UNCHANGED <<path, path2, result2>>

call_is_full_audio ==
  /\ op = "none"
  /\ op' = "is_full_audio"
  /\ result' = is_full_audio(path)
  /\ UNCHANGED <<path, path2, result2>>

call_get_fileno_a ==
  /\ op = "none"
  /\ op' = "get_fileno_a"
  /\ result' = get_fileno_a(path)
  /\ UNCHANGED <<path, path2, result2>>

call_get_fileno_p ==
  /\ op = "none"
  /\ op' = "get_fileno_p"
  /\ result' = get_fileno_p(path)
  /\ UNCHANGED <<path, path2, result2>>

call_is_trimmed ==
  /\ op = "none"
  /\ op' = "is_trimmed"
  /\ result' = is_trimmed(path)
  /\ UNCHANGED <<path, path2, result2>>

call_is_warmup ==
  /\ op = "none"
  /\ op' = "is_warmup"
  /\ result' = is_warmup(path)
  /\ UNCHANGED <<path, path2, result2>>

call_is_valid_flac ==
  /\ op = "none"
  /\ op' = "is_valid_flac"
  /\ result' = is_valid_flac(path)
  /\ UNCHANGED <<path, path2, result2>>

call_is_valid_midi ==
  /\ op = "none"
  /\ op' = "is_valid_midi"
  /\ result' = is_valid_midi(path)
  /\ UNCHANGED <<path, path2, result2>>

call_is_full_video ==
  /\ op = "none"
  /\ op' = "is_full_video"
  /\ result' = is_full_video(path)
  /\ UNCHANGED <<path, path2, result2>>

call_get_split_no ==
  /\ op = "none"
  /\ op' = "get_split_no"
  /\ result' = get_split_no(path)
  /\ UNCHANGED <<path, path2, result2>>

call_get_split_num_id ==
  /\ op = "none"
  /\ op' = "get_split_num_id"
  /\ result' = get_split_num_id(path)
  /\ UNCHANGED <<path, path2, result2>>

\* The call is over; PathUtils keeps nothing of it.
Return ==
  /\ op # "none"
  /\ op' = "none"
  /\ result' = NoCall
  /\ result2' = NoCall
  /\ UNCHANGED <<path, path2>>

Next ==
  \/ call_get_type
  \/ call_is_split
  \/ call_is_valid_video
  \/ call_is_valid_audio
  \/ call_get_session_id
  \/ call_get_session_no
  \/ call_get_date
  \/ call_is_full_audio
  \/ call_get_fileno_a
  \/ call_get_fileno_p
  \/ call_is_trimmed
  \/ call_is_warmup
  \/ call_is_valid_flac
  \/ call_is_valid_midi
  \/ call_is_full_video
  \/ call_get_split_no
  \/ call_get_split_num_id
  \/ Return

Spec == Init /\ [][Next]_vars

\* Two files of one run, as a caller that sorts splits by id has them.
InitPair ==
  /\ path \in PairFiles
  /\ path2 \in PairFiles
  /\ op = "none"
  /\ result = NoCall
  /\ result2 = NoCall

\* get_split_num_id is called on both files.
CallPair ==
  /\ op = "none"
  /\ op' = "get_split_num_id"
  /\ result' = get_split_num_id(path)
  /\ result2' = get_split_num_id(path2)
  /\ UNCHANGED <<path, path2>>

NextPair == CallPair \/ Return

SpecPair == InitPair /\ [][NextPair]_vars

TypeOK ==
  /\ op \in Methods \cup {"none"}
  /\ result.kind \in {"ok", "none", "raise", "nocall"}
  /\ (op = "none") = (result = NoCall)

---------------------------------------------------------------------------
(* Vocabulary of the properties *)

\* The predicate returned True.
IsTrue(r) == r.kind = "ok" /\ r.val

\* The file name holds a substring of shape dddd-dd-dd.
HasDate(file) == \E i \in 1..Len(Name(file)) : DateAt(Name(file), i)

\* tok is "split" followed by digits and nothing else.
IsSplitN(tok) ==
  /\ Len(tok) >= 6
  /\ SubSeq(tok, 1, 5) = s_split
  /\ \A k \in 6..Len(tok) : IsDigit(tok[k])

\* The N of a token splitN.
SplitN(tok) == ToInt(SubSeq(tok, 6, Len(tok)))

\* tok is a letter of {a, v} followed by exactly two digits.
IsSessionTok(tok) ==
  Len(tok) = 3 /\ tok[1] \in {"a", "v"} /\ IsDigit(tok[2]) /\ IsDigit(tok[3])

\* The tag the priority lists of get_type give: the first tag of the list of
\* the suffix whose predicate is true, None when there is none.
FirstTag(file) ==
  IF Suffix(file) = s_mid THEN
    IF IsTrue(is_valid_midi(file)) THEN Ok("full_midi")
    ELSE IF IsTrue(is_split(file)) THEN Ok("split_midi")
    ELSE None
  ELSE IF Suffix(file) = s_flac THEN
    IF IsTrue(is_valid_flac(file)) THEN Ok("full_flac")
    ELSE IF IsTrue(is_split(file)) THEN Ok("split_flac")
    ELSE None
  ELSE IF Suffix(file) = s_mp4 THEN
    IF IsTrue(is_trimmed(file)) THEN Ok("trimmed_video")
    ELSE IF IsTrue(is_full_video(file)) THEN Ok("full_video")
    ELSE IF IsTrue(is_valid_video(file)) THEN Ok("video")
    ELSE IF IsTrue(is_split(file)) THEN Ok("split_video")
    ELSE None
  ELSE IF Suffix(file) = s_aac THEN
    IF IsTrue(is_full_audio(file)) THEN Ok("full_audio")
    ELSE IF IsTrue(is_valid_audio(file)) THEN Ok("audio")
    ELSE None
  ELSE None

---------------------------------------------------------------------------
(* Properties *)

\* C1: get_type returns the first tag of the priority list of the suffix
\* whose predicate is true, and None when no predicate of the list is true;
\* an .mp4 file with a token "trimmed" and the last token "full" is a
\* trimmed_video.
C1_FirstTagWins ==
  op = "get_type" =>
    /\ result = FirstTag(path)
    /\ (/\ Suffix(path) = s_mp4
        /\ LastToken(path) = s_full
        /\ \E k \in 1..Len(Tokens(path)) : Tokens(path)[k] = s_trimmed)
       => result = Ok("trimmed_video")

\* The priority order alone: whenever get_type returns, it returns the
\* first tag whose predicate is true.
DispatchOrderWhenReturning ==
  op = "get_type" /\ result.kind # "raise" => result = FirstTag(path)

\* C2: get_type never raises on a .mid, .flac, .mp4 or .aac file, whatever
\* its tokens, and returns None for every other suffix.
C2_GetTypeTotal ==
  op = "get_type" =>
    /\ result.kind \in {"ok", "none"}
    /\ Suffix(path) \notin {s_mid, s_flac, s_mp4, s_aac} => result = None

\* C3: get_split_num_id raises for every file whose name holds a date and
\* whose split number is 100 or above.
C3_RaisesAbove99 ==
  (/\ op = "get_split_num_id"
   /\ HasDate(path)
   /\ IsSplitN(LastToken(path))
   /\ SplitN(LastToken(path)) >= 100)
  => result.kind = "raise"

\* C4: an id that get_split_num_id returns is epoch_seconds(date) * 100 +
\* split_no with split_no in 0..99, and two files get the same id only if
\* their extracted dates are equal and their extracted split numbers are
\* equal.
C4_IdInjective ==
  (op = "get_split_num_id" /\ result.kind = "ok") =>
    /\ get_split_no(path).val \in 0..99
    /\ result.val = mktime(strptime(get_date(path).val).val) * 100
                    + get_split_no(path).val
    /\ (result2.kind = "ok" /\ result2.val = result.val) =>
         /\ get_date(path).val = get_date(path2).val
         /\ get_split_no(path).val = get_split_no(path2).val

\* Two different files with a date and a split number got the same id.
C4_Witness ==
  /\ op = "get_split_num_id"
  /\ result.kind = "ok"
  /\ result2.kind = "ok"
  /\ path # path2
  /\ result.val = result2.val

\* C5: the outcome of every method on a path is its outcome on the final
\* name component of the path alone.
C5_NameOnly ==
  op # "none" => result = Apply(op, Name(path))

C8_ExactToken ==
  op = "is_split" =>
    /\ result.kind = "ok"
    /\ result.val =
         \E k \in 1..Len(Tokens(path)) :
           /\ IsSplitN(Tokens(path)[k])
           /\ Len(Tokens(path)[k]) \in {6, 7}

\* tok without the line feed that ends it, if one does.
ChopLineFeed(tok) ==
  IF tok # <<>> /\ tok[Len(tok)] = "\n" THEN SubSeq(tok, 1, Len(tok) - 1)
  ELSE tok

\* C8: is_split is true iff some token of the stem is "split" followed by
\* one or two digits, or that followed by one line feed: true with split7
\* or split23 in any position, false when split100 is the only split-like
\* token.
C8_TokenUpToLineFeed ==
  op = "is_split" =>
    /\ result.kind = "ok"
    /\ result.val =
         \E k \in 1..Len(Tokens(path)) :
           /\ IsSplitN(ChopLineFeed(Tokens(path)[k]))
           /\ Len(ChopLineFeed(Tokens(path)[k])) \in {6, 7}

\* is_split was false on a stem whose last token is split100.
C8_Witness ==
  /\ op = "is_split"
  /\ LastToken(path) = t_split100
  /\ result = Ok(FALSE)

\* C9 as stated: each of the four predicates raises IndexError when the
\* last token is empty, whatever the suffix.
C9_AlwaysRaises ==
  (/\ op \in {"is_valid_video", "is_valid_audio", "is_valid_flac",
              "is_valid_midi"}
   /\ LastToken(path) = <<>>)
  => result = Raise("IndexError")

\* C9: when the last token is empty, is_valid_video and is_valid_audio
\* raise IndexError whatever the suffix; is_valid_flac raises it for a
\* .flac file and is_valid_midi for a .mid file, and they return False for
\* every other suffix.
C9_RaisesUnlessShortCircuit ==
  LastToken(path) = <<>> =>
    /\ op \in {"is_valid_video", "is_valid_audio"}
       => result = Raise("IndexError")
    /\ op = "is_valid_flac" =>
         result = IF Suffix(path) = s_flac THEN Raise("IndexError")
                  ELSE Ok(FALSE)
    /\ op = "is_valid_midi" =>
         result = IF Suffix(path) = s_mid THEN Raise("IndexError")
                  ELSE Ok(FALSE)

\* is_valid_flac returned False on a .mid file with an empty last token.
C9_Witness ==
  /\ op = "is_valid_flac"
  /\ LastToken(path) = <<>>
  /\ Suffix(path) = s_mid
  /\ result = Ok(FALSE)

\* C10 as stated: when is_split is true, get_split_no returns the N of a
\* token splitN of the stem.
C10_SplitAnywhere ==
  (op = "get_split_no" /\ IsTrue(is_split(path))) =>
    /\ result.kind = "ok"
    /\ \E k \in 1..Len(Tokens(path)) :
         /\ IsSplitN(ChopLineFeed(Tokens(path)[k]))
         /\ SplitN(ChopLineFeed(Tokens(path)[k])) = result.val

\* C10: when the last token of the stem matches ^split\d{1,2}$, is_split
\* is true and get_split_no returns the N of that token.
C10_SplitLast ==
  (op = "get_split_no" /\ MatchSplit(LastToken(path))) =>
    /\ IsTrue(is_split(path))
    /\ result = Ok(SplitN(ChopLineFeed(LastToken(path))))

\* get_split_no returned 23 for a stem that ends in _split23.
C10_Witness ==
  /\ op = "get_split_no"
  /\ Len(Tokens(path)) >= 2
  /\ LastToken(path) = t_split23
  /\ result = Ok(23)

====
